---- MODULE Spec2Model ----
(***************************************************************************)
(* Model of the equation resolver: Graph (classes/Graph.js), the           *)
(* TopologicalSorter (classes/TopologicalSorter.js) and EquationResolver   *)
(* (classes/EquationResolver.js).                                          *)
(*                                                                         *)
(* Names (object keys, vertices) are TLA+ strings. Expression texts are    *)
(* sequences of one-character strings, so that the regular expression      *)
(* exprVarTokenRe is modelled character by character.                      *)
(***************************************************************************)
EXTENDS Integers, Sequences, FiniteSets, TLC

VARIABLES
    pc,                \* position of the program: "new" (before the constructor), "sort"
                       \* (in the sorter's loop), "ready" (constructed), "hang" (the
                       \* parent-link walk of dfs does not end)
    inputKeys,         \* own keys of the inputEquations object, in insertion order
    inputEquations,    \* this.inputEquations: name -> expression text
    graph,             \* the Graph: [vertices |-> keys of .vertices in order, adj |-> .adj]
    marked,            \* TopologicalSorter.marked (set of keys)
    onStack,           \* TopologicalSorter.onStack (set of keys)
    edgeTo,            \* TopologicalSorter.edgeTo (map w -> v)
    ordering,          \* TopologicalSorter.ordering
    cycle,             \* TopologicalSorter.cycle: {} is null, {c} is the array c
    vi,                \* index of the constructor's _.forEach over graph.getVertices()
    stack,             \* call stack of dfs: frames [v, i], i = index of the adjacency loop
    graphCycle,        \* EquationResolver.graphCycle: {} is undefined, {c} is the array c
    topologicalOrder,  \* EquationResolver.topologicalOrder: {} is undefined, {o} the array
    calls              \* outcomes of the calls made on the constructed objects, in order

vars == << pc, inputKeys, inputEquations, graph, marked, onStack, edgeTo, ordering,
           cycle, vi, stack, graphCycle, topologicalOrder, calls >>

-----------------------------------------------------------------------------
(* Bounds of the model *)

MaxEquations == 3
MaxCalls == 2
MaxGraphOps == 3

-----------------------------------------------------------------------------
(* Characters and strings *)

UpperChars == { "A", "B", "C", "D", "F", "O", "X" }
LowerChars == { "a", "d", "e", "f", "i", "n", "u" }
DigitChars == { "1", "2", "5" }
\* \w of a JavaScript regular expression: [A-Za-z0-9_]
WordChars == UpperChars \cup LowerChars \cup DigitChars \cup { "_" }

RECURSIVE Join(_)
\* the string made of a sequence of characters
Join(s) == IF s = << >> THEN "" ELSE Head(s) \o Join(Tail(s))

\* String( undefined ), the text a replacer function's `undefined` result becomes
UndefinedText == << "u", "n", "d", "e", "f", "i", "n", "e", "d" >>

Range(s) == { s[k] : k \in 1..Len(s) }

Max(S) == CHOOSE m \in S : \A k \in S : k <= m

-----------------------------------------------------------------------------
(* exprVarTokenRe : /\b[A-Z]+\b(?!\()/g *)

IsWordAt(s, p) == p \in 1..Len(s) /\ s[p] \in WordChars

\* \b between the characters at p-1 and p
WordBoundary(s, p) == IsWordAt(s, p - 1) # IsWordAt(s, p)

RECURSIVE RunEnd(_, _)
\* [A-Z]+ from position i, greedy: the index of the last character of the run (i-1 if none)
RunEnd(s, i) ==
    IF i <= Len(s) /\ s[i] \in UpperChars THEN RunEnd(s, i + 1) ELSE i - 1

\* mutant: the regular expression without its lookahead, /\b[A-Z]+\b/g
NoLookahead(s, p) == TRUE

\* (?!\() at position p
NotFollowedByParen(s, p) == ~ (p <= Len(s) /\ s[p] = "(")

\* the regular expression tried at position i: the index of the last character of the
\* match, or 0 if there is no match at i. [A-Z]+ backtracks from the longest run.
exprVarTokenRe(s, i) ==
    IF ~ WordBoundary(s, i) THEN 0
    ELSE LET ends == { k \in i..RunEnd(s, i) :
                          WordBoundary(s, k + 1) /\ NotFollowedByParen(s, k + 1) }
         IN  IF ends = {} THEN 0 ELSE Max(ends)

RECURSIVE RegExpExec(_, _)
\* the next match at or after lastIndex: << first, last >>, or << 0, 0 >> if none
RegExpExec(s, lastIndex) ==
    IF lastIndex > Len(s) THEN << 0, 0 >>
    ELSE LET e == exprVarTokenRe(s, lastIndex)
         IN  IF e # 0 THEN << lastIndex, e >> ELSE RegExpExec(s, lastIndex + 1)

RECURSIVE MatchFrom(_, _)
MatchFrom(s, lastIndex) ==
    LET m == RegExpExec(s, lastIndex)
    IN  IF m[1] = 0 THEN << >>
        ELSE << Join(SubSeq(s, m[1], m[2])) >> \o MatchFrom(s, m[2] + 1)

\* expr.match( exprVarTokenRe ) || []
StringMatch(s) == MatchFrom(s, 1)

\* mutant: the replacer returns the raw text of the dependency, inputEquations[ exprVar ]
ReplacerRawText(expandedEquations, exprVar) ==
    IF exprVar \in DOMAIN inputEquations THEN inputEquations[exprVar]
    ELSE UndefinedText

\* the replacer function of getExpandedEquations: expandedEquations[ exprVar ]
Replacer(expandedEquations, exprVar) ==
    IF exprVar \in DOMAIN expandedEquations THEN expandedEquations[exprVar]
    ELSE UndefinedText

RECURSIVE ReplaceFrom(_, _, _)
\* the result text and the arguments the replacer was called with
ReplaceFrom(s, lastIndex, expandedEquations) ==
    LET m == RegExpExec(s, lastIndex)
    IN  IF m[1] = 0 THEN [ text |-> SubSeq(s, lastIndex, Len(s)), tokens |-> << >> ]
        ELSE LET exprVar == Join(SubSeq(s, m[1], m[2]))
                 rest == ReplaceFrom(s, m[2] + 1, expandedEquations)
             IN  [ text   |-> SubSeq(s, lastIndex, m[1] - 1)
                                 \o Replacer(expandedEquations, exprVar) \o rest.text,
                   tokens |-> << exprVar >> \o rest.tokens ]

\* inputEquations[ exprName ].replace( exprVarTokenRe, function( exprVar ) {...} )
StringReplace(s, expandedEquations) == ReplaceFrom(s, 1, expandedEquations)

-----------------------------------------------------------------------------
(* Graph *)

NewGraph == [ vertices |-> << >>, adj |-> << >> ]

addVertex(g, v) ==
    IF v \in Range(g.vertices) THEN g
    ELSE [ g EXCEPT !.vertices = Append(@, v) ]

getVertices(g) == g.vertices

getAdjacencyList(g, v) == IF v \in DOMAIN g.adj THEN g.adj[v] ELSE << >>

\* mutant: the edge is pushed without asking _.contains first
addEdgeNoContains(g, v, w) ==
    [ g EXCEPT !.adj = [ x \in (DOMAIN g.adj) \cup { v } |->
                           IF x = v THEN Append(getAdjacencyList(g, v), w)
                           ELSE g.adj[x] ] ]

addEdge(g, v, w) ==
    LET list == getAdjacencyList(g, v)
        newList == IF w \in Range(list) THEN list ELSE Append(list, w)
    IN  [ g EXCEPT !.adj = [ x \in (DOMAIN g.adj) \cup { v } |->
                                 IF x = v THEN newList ELSE g.adj[x] ] ]

-----------------------------------------------------------------------------
(* EquationResolver.buildGraph *)

RECURSIVE AddDependencies(_, _, _)
\* _.forEach( exprDependencies, ... )
AddDependencies(g, exprName, exprDependencies) ==
    IF exprDependencies = << >> THEN g
    ELSE AddDependencies( addEdge( addVertex(g, Head(exprDependencies)),
                                   exprName, Head(exprDependencies) ),
                          exprName, Tail(exprDependencies) )

RECURSIVE BuildFrom(_, _, _)
\* _.forOwn( inputEquations, ... ) over the keys still to visit
BuildFrom(g, keys, eqs) ==
    IF keys = << >> THEN g
    ELSE LET exprName == Head(keys)
         IN  BuildFrom( AddDependencies( addVertex(g, exprName), exprName,
                                         StringMatch(eqs[exprName]) ),
                        Tail(keys), eqs )

buildGraph(keys, eqs) == BuildFrom(NewGraph, keys, eqs)

-----------------------------------------------------------------------------
(* Inputs *)

Names == { "A", "B", "C", "D" }

\* expression texts the bounded family of inputs draws from
ExprPool ==
    { << "1" >>,
      << "B", "+", "2" >>,
      << "C", "+", "5" >>,
      << "A", "+", "B" >>,
      << "F", "(", "C", ")", "+", "B", "a" >> }

\* key sequences of at most MaxEquations distinct names (insertion order matters)
KeySeqs ==
    { k \in UNION { [ 1..n -> Names ] : n \in 0..MaxEquations } :
        \A a, b \in 1..Len(k) : a # b => k[a] # k[b] }

Equations(keys, eqs) == [ keys |-> keys, eqs |-> eqs ]

\* { A: "B+2", B: "C+5", C: "1", D: "A+B" }
CanonicalInput ==
    Equations( << "A", "B", "C", "D" >>,
               [ n \in { "A", "B", "C", "D" } |->
                   CASE n = "A" -> << "B", "+", "2" >>
                     [] n = "B" -> << "C", "+", "5" >>
                     [] n = "C" -> << "1" >>
                     [] n = "D" -> << "A", "+", "B" >> ] )

\* { A: "A+1" }
SelfCycleInput == Equations( << "A" >>, [ n \in { "A" } |-> << "A", "+", "1" >> ] )

\* { A: "B+1", B: "C+1", C: "A+1" }
ThreeCycleInput ==
    Equations( << "A", "B", "C" >>,
               [ n \in { "A", "B", "C" } |->
                   CASE n = "A" -> << "B", "+", "1" >>
                     [] n = "B" -> << "C", "+", "1" >>
                     [] n = "C" -> << "A", "+", "1" >> ] )

\* { A: "X+1" }, X undefined
UndefinedInput == Equations( << "A" >>, [ n \in { "A" } |-> << "X", "+", "1" >> ] )

\* { D: "FOO(A,B)+C", A: "1", B: "2", C: "5" }
FunctionCallInput ==
    Equations( << "D", "A", "B", "C" >>,
               [ n \in { "A", "B", "C", "D" } |->
                   CASE n = "D" -> << "F", "O", "O", "(", "A", ",", "B", ")", "+", "C" >>
                     [] n = "A" -> << "1" >>
                     [] n = "B" -> << "2" >>
                     [] n = "C" -> << "5" >> ] )

\* { D: "A+A+B", A: "1", B: "2" }
DuplicateInput ==
    Equations( << "D", "A", "B" >>,
               [ n \in { "A", "B", "D" } |->
                   CASE n = "D" -> << "A", "+", "A", "+", "B" >>
                     [] n = "A" -> << "1" >>
                     [] n = "B" -> << "2" >> ] )

Examples == { CanonicalInput, SelfCycleInput, ThreeCycleInput, UndefinedInput,
              FunctionCallInput, DuplicateInput }

-----------------------------------------------------------------------------
(* TopologicalSorter *)

TopologicalSorter_hasCycle == cycle # {}

TopologicalSorter_getCycle == cycle

RECURSIVE CycleWalk(_, _, _, _)
\* for( var x = v; x != w; x = this.edgeTo[ x ] ) this.cycle.unshift( x );
\* a missing parent link makes x undefined, which never equals w: the loop does not end
CycleWalk(x, w, parents, acc) ==
    IF x = w THEN [ ends |-> TRUE, cycle |-> acc ]
    ELSE IF x \notin DOMAIN parents THEN [ ends |-> FALSE, cycle |-> acc ]
    ELSE CycleWalk(parents[x], w, parents, << x >> \o acc)

\* mutant: the closing unshift( w ) is left out
BuildCycleOpen(v, w, parents) == CycleWalk(v, w, parents, << w >>)

\* this.cycle = []; unshift( w ); the walk from v; unshift( w )
BuildCycle(v, w, parents) ==
    LET walk == CycleWalk(v, w, parents, << w >>)
    IN  [ ends |-> walk.ends, cycle |-> << w >> \o walk.cycle ]

Top == stack[Len(stack)]

TopNeighbours == getAdjacencyList(graph, Top.v)

\* mutant: the test of this.cycle that short-circuits the loop is missing
DfsBranchNoShortCircuit(w) ==
    IF w \notin marked THEN "recurse"
    ELSE IF w \in onStack THEN "cycle"
    ELSE "none"

\* mutant: the on-stack test misses the neighbour that is the vertex itself
DfsBranchMissSelfLoop(w) ==
    IF cycle # {} THEN "return"
    ELSE IF w \notin marked THEN "recurse"
    ELSE IF w \in onStack /\ w # stack[Len(stack)].v THEN "cycle"
    ELSE "none"

\* the if / else if chain of the adjacency loop of dfs( graph, v ) for neighbour w
DfsBranch(w) ==
    IF cycle # {} THEN "return"
    ELSE IF w \notin marked THEN "recurse"
    ELSE IF w \in onStack THEN "cycle"
    ELSE "none"

\* the frame on top of the stack moves to its next neighbour
Advance(stk) == [ stk EXCEPT ![Len(stk)].i = @ + 1 ]

\* dfs( graph, v ) is entered: lines 34-35
DfsEnter(stk, v) ==
    /\ marked' = marked \cup { v }
    /\ onStack' = onStack \cup { v }
    /\ stack' = Append(stk, [ v |-> v, i |-> 1 ])

-----------------------------------------------------------------------------
(* EquationResolver *)

hasCycle == graphCycle # {}

getCycle == graphCycle

RECURSIVE ExpandFromLenient(_, _, _, _)
\* mutant: a name that is no key is expanded as if its text were empty,
\* ( inputEquations[ exprName ] || "" ).replace( ... )
ExpandFromLenient(order, eqs, expandedEquations, substituted) ==
    IF order = << >>
    THEN [ threw |-> FALSE, expandedEquations |-> expandedEquations,
           substituted |-> substituted ]
    ELSE LET exprName == Head(order)
             r == StringReplace(IF exprName \in DOMAIN eqs THEN eqs[exprName] ELSE << >>,
                                expandedEquations)
             keys == (DOMAIN expandedEquations) \cup { exprName }
         IN  ExpandFromLenient( Tail(order), eqs,
                                [ n \in keys |-> IF n = exprName THEN r.text
                                                 ELSE expandedEquations[n] ],
                                [ n \in keys |-> IF n = exprName THEN Range(r.tokens)
                                                 ELSE substituted[n] ] )

RECURSIVE ExpandFrom(_, _, _, _)
\* _.forEach( this.topologicalOrder, ... ): the substitution pass over the names left.
\* inputEquations[ exprName ] is undefined for a name that is no key: .replace throws
ExpandFrom(order, eqs, expandedEquations, substituted) ==
    IF order = << >>
    THEN [ threw |-> FALSE, expandedEquations |-> expandedEquations,
           substituted |-> substituted ]
    ELSE LET exprName == Head(order)
         IN  IF exprName \notin DOMAIN eqs
             THEN [ threw |-> TRUE, expandedEquations |-> expandedEquations,
                    substituted |-> substituted ]
             ELSE LET r == StringReplace(eqs[exprName], expandedEquations)
                      keys == (DOMAIN expandedEquations) \cup { exprName }
                  IN  ExpandFrom( Tail(order), eqs,
                                  [ n \in keys |-> IF n = exprName THEN r.text
                                                   ELSE expandedEquations[n] ],
                                  [ n \in keys |-> IF n = exprName THEN Range(r.tokens)
                                                   ELSE substituted[n] ] )

NoValue == << >>

\* the error thrown when the equations have a cycle
CycleError ==
    [ outcome |-> "threw", error |-> "Error", ranPass |-> FALSE,
      value |-> NoValue, substituted |-> NoValue ]

\* lines 186-197 of getExpandedEquations(): a new expandedEquations object, the
\* substitution pass in topological order (_.forEach over an undefined collection
\* visits nothing), and the return; a TypeError of the pass leaves the function
SubstitutionPass ==
    LET order == IF topologicalOrder = {} THEN << >>
                 ELSE CHOOSE o \in topologicalOrder : TRUE
        pass == ExpandFrom(order, inputEquations, << >>, << >>)
    IN  IF pass.threw
        THEN [ outcome |-> "threw", error |-> "TypeError", ranPass |-> TRUE,
               value |-> NoValue, substituted |-> pass.substituted ]
        ELSE [ outcome |-> "returned", error |-> "none", ranPass |-> TRUE,
               value |-> pass.expandedEquations, substituted |-> pass.substituted ]

\* mutant: the guard on hasCycle() is missing
getExpandedEquationsUnguarded == SubstitutionPass

\* mutant: the first returned mapping is kept and handed out again
getExpandedEquationsCached ==
    LET earlier == { k \in 1..Len(calls) : /\ calls[k].op = "getExpandedEquations"
                                           /\ calls[k].outcome = "returned" }
    IN  IF hasCycle THEN CycleError
        ELSE IF earlier # {}
        THEN [ outcome |-> "returned", error |-> "none", ranPass |-> FALSE,
               value |-> calls[CHOOSE k \in earlier : TRUE].value,
               substituted |-> NoValue ]
        ELSE SubstitutionPass

\* the outcome of one call of getExpandedEquations() in the current state
getExpandedEquationsOutcome == IF hasCycle THEN CycleError ELSE SubstitutionPass

\* the outcome of one call of TopologicalSorter.getOrdering() in the current state
getOrderingOutcome ==
    IF TopologicalSorter_hasCycle THEN CycleError
    ELSE [ outcome |-> "returned", error |-> "none", ranPass |-> FALSE,
           value |-> ordering, substituted |-> NoValue ]

\* the record of a call: the operation and its outcome
Call(op, r) ==
    [ op |-> op, outcome |-> r.outcome, error |-> r.error, ranPass |-> r.ranPass,
      value |-> r.value, substituted |-> r.substituted ]

-----------------------------------------------------------------------------
(* The program *)

sorterVars == << marked, onStack, edgeTo, ordering, cycle, vi, stack >>
resolverVars == << inputKeys, inputEquations, graphCycle, topologicalOrder >>

Init ==
    /\ pc = "new"
    /\ \/ \E input \in Examples :
              /\ inputKeys = input.keys
              /\ inputEquations = input.eqs
       \/ \E keys \in KeySeqs :
              /\ inputKeys = keys
              /\ inputEquations \in [ Range(keys) -> ExprPool ]
    /\ graph = NewGraph
    /\ marked = {}
    /\ onStack = {}
    /\ edgeTo = << >>
    /\ ordering = << >>
    /\ cycle = {}
    /\ vi = 1
    /\ stack = << >>
    /\ graphCycle = {}
    /\ topologicalOrder = {}
    /\ calls = << >>

\* new EquationResolver( inputEquations ) up to the sorter's loop:
\* buildGraph, then the fields of new TopologicalSorter( graph )
Construct ==
    /\ pc = "new"
    /\ graph' = buildGraph(inputKeys, inputEquations)
    /\ marked' = {}
    /\ onStack' = {}
    /\ edgeTo' = << >>
    /\ ordering' = << >>
    /\ cycle' = {}
    /\ vi' = 1
    /\ stack' = << >>
    /\ pc' = "sort"
    /\ UNCHANGED << resolverVars, calls >>

\* the sorter's outer loop reaches a vertex not yet marked and calls dfs on it
VisitVertex ==
    /\ pc = "sort"
    /\ stack = << >>
    /\ vi <= Len(getVertices(graph))
    /\ getVertices(graph)[vi] \notin marked
    /\ DfsEnter(stack, getVertices(graph)[vi])
    /\ vi' = vi + 1
    /\ UNCHANGED << pc, graph, edgeTo, ordering, cycle, resolverVars, calls >>

\* the sorter's outer loop passes a vertex already marked
SkipVertex ==
    /\ pc = "sort"
    /\ stack = << >>
    /\ vi <= Len(getVertices(graph))
    /\ getVertices(graph)[vi] \in marked
    /\ vi' = vi + 1
    /\ UNCHANGED << pc, graph, marked, onStack, edgeTo, ordering, cycle, stack,
                    resolverVars, calls >>

\* dfs, neighbour w, a cycle is already recorded: the callback returns
DfsSkipNeighbour ==
    /\ pc = "sort"
    /\ stack # << >>
    /\ Top.i <= Len(TopNeighbours)
    /\ DfsBranch(TopNeighbours[Top.i]) = "return"
    /\ stack' = Advance(stack)
    /\ UNCHANGED << pc, graph, marked, onStack, edgeTo, ordering, cycle, vi,
                    resolverVars, calls >>

\* dfs, neighbour w not marked: edgeTo[ w ] = v and dfs( graph, w )
DfsTreeEdge ==
    /\ pc = "sort"
    /\ stack # << >>
    /\ Top.i <= Len(TopNeighbours)
    /\ DfsBranch(TopNeighbours[Top.i]) = "recurse"
    /\ LET v == Top.v
           w == TopNeighbours[Top.i]
       IN  /\ edgeTo' = [ x \in (DOMAIN edgeTo) \cup { w } |->
                            IF x = w THEN v ELSE edgeTo[x] ]
           /\ DfsEnter(Advance(stack), w)
    /\ UNCHANGED << pc, graph, ordering, cycle, vi, resolverVars, calls >>

\* dfs, neighbour w marked and on the stack: the cycle is recorded
DfsBackEdge ==
    /\ pc = "sort"
    /\ stack # << >>
    /\ Top.i <= Len(TopNeighbours)
    /\ DfsBranch(TopNeighbours[Top.i]) = "cycle"
    /\ LET v == Top.v
           w == TopNeighbours[Top.i]
           found == BuildCycle(v, w, edgeTo)
       IN  /\ cycle' = { found.cycle }
           /\ pc' = IF found.ends THEN pc ELSE "hang"
    /\ stack' = Advance(stack)
    /\ UNCHANGED << graph, marked, onStack, edgeTo, ordering, vi, resolverVars, calls >>

\* dfs, neighbour w marked and finished: nothing to do
DfsFinishedNeighbour ==
    /\ pc = "sort"
    /\ stack # << >>
    /\ Top.i <= Len(TopNeighbours)
    /\ DfsBranch(TopNeighbours[Top.i]) = "none"
    /\ stack' = Advance(stack)
    /\ UNCHANGED << pc, graph, marked, onStack, edgeTo, ordering, cycle, vi,
                    resolverVars, calls >>

\* mutant: delete this.onStack[ v ] is missing
DfsReturnKeepOnStack ==
    /\ pc = "sort"
    /\ stack # << >>
    /\ Top.i > Len(TopNeighbours)
    /\ ordering' = Append(ordering, Top.v)
    /\ stack' = SubSeq(stack, 1, Len(stack) - 1)
    /\ UNCHANGED << pc, graph, marked, onStack, edgeTo, cycle, vi, resolverVars, calls >>

\* mutant: the vertex is put at the front of the ordering (unshift for push)
DfsReturnUnshift ==
    /\ pc = "sort"
    /\ stack # << >>
    /\ Top.i > Len(TopNeighbours)
    /\ onStack' = onStack \ { Top.v }
    /\ ordering' = << Top.v >> \o ordering
    /\ stack' = SubSeq(stack, 1, Len(stack) - 1)
    /\ UNCHANGED << pc, graph, marked, edgeTo, cycle, vi, resolverVars, calls >>

\* dfs returns: delete this.onStack[ v ]; this.ordering.push( v )
DfsReturn ==
    /\ pc = "sort"
    /\ stack # << >>
    /\ Top.i > Len(TopNeighbours)
    /\ onStack' = onStack \ { Top.v }
    /\ ordering' = Append(ordering, Top.v)
    /\ stack' = SubSeq(stack, 1, Len(stack) - 1)
    /\ UNCHANGED << pc, graph, marked, edgeTo, cycle, vi, resolverVars, calls >>

\* the sorter is built: the resolver stores the cycle or the ordering
FinishConstruction ==
    /\ pc = "sort"
    /\ stack = << >>
    /\ vi > Len(getVertices(graph))
    /\ IF TopologicalSorter_hasCycle
       THEN /\ graphCycle' = TopologicalSorter_getCycle
            /\ UNCHANGED topologicalOrder
       ELSE /\ topologicalOrder' = { getOrderingOutcome.value }
            /\ UNCHANGED graphCycle
    /\ pc' = "ready"
    /\ UNCHANGED << inputKeys, inputEquations, graph, sorterVars, calls >>

\* a caller calls resolver.getExpandedEquations()
getExpandedEquations ==
    /\ pc = "ready"
    /\ Len(calls) < MaxCalls
    /\ calls' = Append(calls, Call("getExpandedEquations",
                                   getExpandedEquationsOutcome))
    /\ UNCHANGED << pc, graph, sorterVars, resolverVars >>

\* a caller calls topologicalSorter.getOrdering()
TopologicalSorter_getOrdering ==
    /\ pc = "ready"
    /\ Len(calls) < MaxCalls
    /\ calls' = Append(calls, Call("getOrdering", getOrderingOutcome))
    /\ UNCHANGED << pc, graph, sorterVars, resolverVars >>

Next ==
    \/ Construct
    \/ VisitVertex
    \/ SkipVertex
    \/ DfsSkipNeighbour
    \/ DfsTreeEdge
    \/ DfsBackEdge
    \/ DfsFinishedNeighbour
    \/ DfsReturn
    \/ FinishConstruction
    \/ getExpandedEquations
    \/ TopologicalSorter_getOrdering

Spec == Init /\ [][Next]_vars

\* the steps of new EquationResolver( inputEquations )
ConstructorStep ==
    \/ Construct
    \/ VisitVertex
    \/ SkipVertex
    \/ DfsSkipNeighbour
    \/ DfsTreeEdge
    \/ DfsBackEdge
    \/ DfsFinishedNeighbour
    \/ DfsReturn
    \/ FinishConstruction

-----------------------------------------------------------------------------
(* A Graph on its own: any caller's sequence of addVertex and addEdge calls. *)
(* calls is the log of the calls made on the graph.                        *)

GraphNames == { "A", "B", "D" }

\* "A+A+B" and "B+D+B"
GraphExprs == { << "A", "+", "A", "+", "B" >>, << "B", "+", "D", "+", "B" >> }

\* the record of one call on the graph; start marks the first call of an operation
GraphCall(op, v, w, start) == [ op |-> op, v |-> v, w |-> w, start |-> start ]

RECURSIVE DependencyCalls(_, _)
\* the calls the inner _.forEach of buildGraph makes for the dependencies of exprName
DependencyCalls(exprName, exprDependencies) ==
    IF exprDependencies = << >> THEN << >>
    ELSE << GraphCall("addVertex", Head(exprDependencies), Head(exprDependencies), FALSE),
            GraphCall("addEdge", exprName, Head(exprDependencies), FALSE) >>
         \o DependencyCalls(exprName, Tail(exprDependencies))

\* the calls buildGraph makes for one equation
EquationCalls(exprName, expr) ==
    << GraphCall("addVertex", exprName, exprName, TRUE) >>
    \o DependencyCalls(exprName, StringMatch(expr))

\* the number of operations made on the graph so far
GraphOps == Cardinality({ k \in 1..Len(calls) : calls[k].start })

GraphInit ==
    /\ pc = "graph"
    /\ graph = NewGraph
    /\ calls = << >>
    /\ inputKeys = << >>
    /\ inputEquations = << >>
    /\ marked = {}
    /\ onStack = {}
    /\ edgeTo = << >>
    /\ ordering = << >>
    /\ cycle = {}
    /\ vi = 1
    /\ stack = << >>
    /\ graphCycle = {}
    /\ topologicalOrder = {}

\* a caller calls graph.addVertex( v )
GraphAddVertex ==
    /\ pc = "graph"
    /\ GraphOps < MaxGraphOps
    /\ \E v \in GraphNames :
          /\ graph' = addVertex(graph, v)
          /\ calls' = Append(calls, GraphCall("addVertex", v, v, TRUE))
    /\ UNCHANGED << pc, sorterVars, resolverVars >>

\* a caller calls graph.addEdge( v, w )
GraphAddEdge ==
    /\ pc = "graph"
    /\ GraphOps < MaxGraphOps
    /\ \E v, w \in GraphNames :
          /\ graph' = addEdge(graph, v, w)
          /\ calls' = Append(calls, GraphCall("addEdge", v, w, TRUE))
    /\ UNCHANGED << pc, sorterVars, resolverVars >>

\* buildGraph's callback for one equation: addVertex( exprName ), then addVertex and
\* addEdge for each match of the expression
GraphAddEquation ==
    /\ pc = "graph"
    /\ GraphOps < MaxGraphOps
    /\ \E exprName \in GraphNames, expr \in GraphExprs :
          /\ graph' = AddDependencies(addVertex(graph, exprName), exprName,
                                      StringMatch(expr))
          /\ calls' = calls \o EquationCalls(exprName, expr)
    /\ UNCHANGED << pc, sorterVars, resolverVars >>

GraphNext ==
    \/ GraphAddVertex
    \/ GraphAddEdge
    \/ GraphAddEquation

GraphSpec == GraphInit /\ [][GraphNext]_vars

-----------------------------------------------------------------------------
(* The dependency graph the equations describe, stated without the code *)

\* the spans << i, j >> of s that are variable tokens: a maximal whole-word run of
\* uppercase letters that is not immediately followed by "("
VarTokenSpans(s) ==
    { sp \in (1..Len(s)) \X (1..Len(s)) :
        /\ sp[1] <= sp[2]
        /\ \A k \in sp[1]..sp[2] : s[k] \in UpperChars
        /\ sp[1] = 1 \/ s[sp[1] - 1] \notin WordChars
        /\ sp[2] = Len(s) \/ s[sp[2] + 1] \notin (WordChars \cup { "(" }) }

VarTokens(s) == { Join(SubSeq(s, sp[1], sp[2])) : sp \in VarTokenSpans(s) }

\* edge name -> token for every variable token in name's expression
DependencyEdges ==
    UNION { { << n, t >> : t \in VarTokens(inputEquations[n]) } :
            n \in DOMAIN inputEquations }

RECURSIVE TransitiveClosure(_)
TransitiveClosure(R) ==
    LET step == R \cup { << p[1][1], p[2][2] >> :
                            p \in { q \in R \X R : q[1][2] = q[2][1] } }
    IN  IF step = R THEN R ELSE TransitiveClosure(step)

HasDirectedCycle(R) == \E e \in TransitiveClosure(R) : e[1] = e[2]

\* the edges stored in the built graph
GraphEdges ==
    UNION { { << v, graph.adj[v][k] >> : k \in 1..Len(graph.adj[v]) } :
            v \in DOMAIN graph.adj }

\* the position of name n in the sequence o (0 if absent)
IndexOf(o, n) == IF n \in Range(o) THEN CHOOSE k \in 1..Len(o) : o[k] = n ELSE 0

Constructed == pc = "ready"

Acyclic == ~ HasDirectedCycle(DependencyEdges)

\* every name an expression refers to has an equation of its own
AllReferencedDefined == \A e \in DependencyEdges : e[2] \in DOMAIN inputEquations

RECURSIVE SubstituteFrom(_, _, _)
\* the text s from position p on, each variable token replaced by f of its name
SubstituteFrom(s, p, f) ==
    IF p > Len(s) THEN << >>
    ELSE LET here == { sp \in VarTokenSpans(s) : sp[1] = p }
         IN  IF here = {} THEN << s[p] >> \o SubstituteFrom(s, p + 1, f)
             ELSE LET sp == CHOOSE x \in here : TRUE
                  IN  f[Join(SubSeq(s, sp[1], sp[2]))] \o SubstituteFrom(s, sp[2] + 1, f)

Substitute(s, f) == SubstituteFrom(s, 1, f)

\* the calls of getExpandedEquations() made so far (indices into calls)
ExpandCalls == { k \in 1..Len(calls) : calls[k].op = "getExpandedEquations" }
OrderingCalls == { k \in 1..Len(calls) : calls[k].op = "getOrdering" }

\* { A: "1+5+2", B: "1+5", C: "1", D: "1+5+2+1+5" }
CanonicalOutput ==
    [ n \in { "A", "B", "C", "D" } |->
        CASE n = "A" -> << "1", "+", "5", "+", "2" >>
          [] n = "B" -> << "1", "+", "5" >>
          [] n = "C" -> << "1" >>
          [] n = "D" -> << "1", "+", "5", "+", "2", "+", "1", "+", "5" >> ]

TheCycle == CHOOSE c \in graphCycle : TRUE
TheOrder == CHOOSE o \in topologicalOrder : TRUE

-----------------------------------------------------------------------------
(* Claims *)

\* C1: once the resolver is constructed, hasCycle() is true exactly when the
\* dependency graph of the equations (edge name -> token for every variable token)
\* has a directed cycle; a self-reference is a cycle of length 1.
C1_HasCycleIffDirectedCycle ==
    Constructed => (hasCycle <=> HasDirectedCycle(DependencyEdges))

\* a constructed resolver whose input has an equation that references itself
C1_Witness ==
    /\ Constructed
    /\ hasCycle
    /\ \E n \in DOMAIN inputEquations : << n, n >> \in DependencyEdges

\* C2: for an acyclic input the stored topological order holds every vertex of the
\* built graph exactly once, and for every edge v -> w of the graph w comes before v.
C2_OrderRespectsDependencies ==
    (Constructed /\ ~ HasDirectedCycle(DependencyEdges)) =>
        /\ topologicalOrder # {}
        /\ Range(TheOrder) = Range(getVertices(graph))
        /\ Len(TheOrder) = Cardinality(Range(getVertices(graph)))
        /\ \A e \in GraphEdges : IndexOf(TheOrder, e[2]) < IndexOf(TheOrder, e[1])

\* an acyclic input with a chain of two edges has been ordered
C2_Witness ==
    /\ Constructed
    /\ topologicalOrder # {}
    /\ \E e, f \in GraphEdges : e[2] = f[1]

\* C3: when hasCycle() is true, getCycle() is [c1, ..., ck, c1]: at least two names,
\* first equal to last, c1..ck pairwise distinct, every consecutive pair an edge of
\* the dependency graph; {A: "A+1"} gives [A, A], and the three-equation cycle gives
\* a closed sequence with A, B and C once each plus the closing name.
C3_CycleIsClosedWalk ==
    (Constructed /\ hasCycle) =>
        LET c == TheCycle
            k == Len(c) - 1
        IN  /\ getCycle # {}
            /\ Len(c) >= 2
            /\ c[1] = c[Len(c)]
            /\ \A a, b \in 1..k : a # b => c[a] # c[b]
            /\ \A a \in 1..k : << c[a], c[a + 1] >> \in GraphEdges \cap DependencyEdges
            /\ (inputEquations = SelfCycleInput.eqs) => c = << "A", "A" >>
            /\ (inputEquations = ThreeCycleInput.eqs) =>
                   Len(c) = 4 /\ Range(c) = { "A", "B", "C" }

\* the three-equation cycle has been found
C3_Witness ==
    /\ Constructed
    /\ hasCycle
    /\ inputEquations = ThreeCycleInput.eqs
    /\ Len(TheCycle) = 4

\* C4: for an acyclic input in which every referenced name is defined,
\* getExpandedEquations() maps each name to its raw expression with every variable
\* token replaced by the final expanded text of that token, so no expanded text holds
\* a variable token; the canonical input gives exactly the canonical output.
C4_ExpansionIsFullSubstitution ==
    \A k \in ExpandCalls :
        (Acyclic /\ AllReferencedDefined) =>
            /\ calls[k].outcome = "returned"
            /\ DOMAIN inputEquations \subseteq DOMAIN calls[k].value
            /\ \A n \in DOMAIN inputEquations :
                   /\ calls[k].value[n] = Substitute(inputEquations[n], calls[k].value)
                   /\ VarTokens(calls[k].value[n]) = {}
            /\ (inputEquations = CanonicalInput.eqs) => calls[k].value = CanonicalOutput

\* the canonical input has been expanded
C4_Witness ==
    \E k \in ExpandCalls :
        /\ inputEquations = CanonicalInput.eqs
        /\ calls[k].outcome = "returned"

\* C5: for an acyclic input that references a name with no equation of its own,
\* getExpandedEquations() does not crash.
C5_UndefinedVariableDoesNotCrash ==
    \A k \in ExpandCalls :
        (Acyclic /\ ~ AllReferencedDefined) => calls[k].error # "TypeError"

\* C6: when the dependency graph has a cycle, getOrdering() and
\* getExpandedEquations() throw instead of returning a value, and the failed call
\* leaves the stored cycle, the hasCycle() result and the input equations unchanged.
C6_CycleMakesOrderingOperationsThrow ==
    /\ [](\A k \in 1..Len(calls) :
             HasDirectedCycle(DependencyEdges) =>
                 /\ calls[k].outcome = "threw"
                 /\ calls[k].error = "Error"
                 /\ calls[k].value = NoValue)
    /\ [][ (Len(calls') > Len(calls) /\ calls'[Len(calls')].outcome = "threw") =>
               /\ graphCycle' = graphCycle
               /\ cycle' = cycle
               /\ hasCycle' = hasCycle
               /\ inputKeys' = inputKeys
               /\ inputEquations' = inputEquations ]_vars

\* both operations have been called on a resolver with a cycle, and both threw
C6_Witness ==
    /\ hasCycle
    /\ \E j \in ExpandCalls : calls[j].outcome = "threw"
    /\ \E k \in OrderingCalls : calls[k].outcome = "threw"

\* C7: whenever getExpandedEquations() returns a mapping, its key set is exactly the
\* key set of the input equations.
C7_ResultKeysAreInputKeys ==
    \A k \in ExpandCalls :
        calls[k].outcome = "returned" =>
            /\ DOMAIN calls[k].value = DOMAIN inputEquations
            /\ DOMAIN calls[k].value = Range(inputKeys)

\* a mapping has been returned for an input with a dependency
C7_Witness ==
    \E k \in ExpandCalls :
        /\ calls[k].outcome = "returned"
        /\ DependencyEdges # {}

\* C8: on an acyclic input, two calls of getExpandedEquations() on the same resolver
\* both return a mapping, and the two mappings are equal.
C8_RepeatedCallsReturnEqualMappings ==
    \A j, k \in ExpandCalls :
        (Acyclic /\ j < k) =>
            /\ calls[j].outcome = "returned"
            /\ calls[k].outcome = "returned"
            /\ calls[j].value = calls[k].value

\* the part of C8 that holds on every input: no call of getExpandedEquations() or
\* getOrdering() changes the input equations, the stored order or the cycle state
C8_CallsLeaveResolverUnchanged ==
    [][ calls' # calls =>
            UNCHANGED << inputKeys, inputEquations, topologicalOrder, graphCycle,
                         graph, ordering, cycle >> ]_vars

\* C9 as stated: the substitution pass runs on the first call only; a later call
\* returns the cached result without running it again.
C9_PassRunsOnlyOnce ==
    Cardinality({ k \in ExpandCalls : calls[k].ranPass }) <= 1

\* C9 as amended: nothing is cached. Every call of getExpandedEquations() on a resolver
\* without a cycle runs the substitution pass again, and the mappings returned by
\* repeated calls are equal.
C9_PassRunsOnEveryCall ==
    /\ \A k \in ExpandCalls : calls[k].ranPass <=> ~ hasCycle
    /\ \A j, k \in ExpandCalls :
           (calls[j].outcome = "returned" /\ calls[k].outcome = "returned") =>
               calls[j].value = calls[k].value

\* two calls have returned, and each ran the substitution pass
C9_Witness ==
    \E j, k \in ExpandCalls :
        /\ j < k
        /\ calls[j].outcome = "returned" /\ calls[j].ranPass
        /\ calls[k].outcome = "returned" /\ calls[k].ranPass

\* C10: a variable token is a maximal whole-word run of uppercase letters not
\* immediately followed by "(": "FOO(A,B)+C" depends on exactly A, B and C; graph
\* building and substitution use the same rule, so the names an equation has an edge
\* to are the names substituted in its text.
C10_SameTokensInBothPasses ==
    /\ \A n \in DOMAIN inputEquations :
           Range(StringMatch(inputEquations[n])) = VarTokens(inputEquations[n])
    /\ pc # "new" =>
           /\ \A n \in DOMAIN inputEquations :
                  Range(getAdjacencyList(graph, n)) = VarTokens(inputEquations[n])
           /\ (inputEquations = FunctionCallInput.eqs) =>
                  getAdjacencyList(graph, "D") = << "A", "B", "C" >>
    /\ \A k \in ExpandCalls :
           \A n \in DOMAIN calls[k].substituted :
               calls[k].substituted[n] = Range(getAdjacencyList(graph, n))

\* "FOO(A,B)+C" has been expanded: A, B and C were substituted, FOO was not
C10_Witness ==
    \E k \in ExpandCalls :
        /\ inputEquations = FunctionCallInput.eqs
        /\ calls[k].outcome = "returned"
        /\ calls[k].substituted["D"] = { "A", "B", "C" }
        /\ calls[k].value["D"] = << "F", "O", "O", "(", "1", ",", "2", ")", "+", "5" >>

\* the calls addEdge( v, . ) in the log, and the first of them that names w
EdgeCallsFrom(v) == { k \in 1..Len(calls) : calls[k].op = "addEdge" /\ calls[k].v = v }
FirstAdded(v, w) ==
    CHOOSE k \in EdgeCallsFrom(v) :
        /\ calls[k].w = w
        /\ \A j \in EdgeCallsFrom(v) : calls[j].w = w => k <= j

\* C11: after any sequence of addVertex and addEdge calls, getAdjacencyList(v) holds
\* each out-neighbour of v exactly once, in the order in which the edge to it was
\* first added, and is empty for a vertex with no out-edge; the calls made for
\* "A+A+B" of name D leave exactly the edges D -> A and D -> B.
C11_AdjacencyListIsFirstAddedOrder ==
    pc = "graph" =>
        /\ \A v \in GraphNames :
               LET list == getAdjacencyList(graph, v)
               IN  /\ Range(list) = { calls[k].w : k \in EdgeCallsFrom(v) }
                   /\ \A a, b \in 1..Len(list) : a # b => list[a] # list[b]
                   /\ \A a, b \in 1..Len(list) :
                          a < b => FirstAdded(v, list[a]) < FirstAdded(v, list[b])
                   /\ EdgeCallsFrom(v) = {} => list = << >>
        /\ (calls = EquationCalls("D", << "A", "+", "A", "+", "B" >>)) =>
               /\ getAdjacencyList(graph, "D") = << "A", "B" >>
               /\ getAdjacencyList(graph, "A") = << >>
               /\ getAdjacencyList(graph, "B") = << >>

\* the edge D -> A was added twice and then D -> B, and D has the two edges
C11_Witness ==
    /\ pc = "graph"
    /\ calls = EquationCalls("D", << "A", "+", "A", "+", "B" >>)
    /\ Cardinality({ k \in EdgeCallsFrom("D") : calls[k].w = "A" }) = 2
    /\ getAdjacencyList(graph, "D") = << "A", "B" >>

RECURSIVE RootOf(_)
\* the vertex the outer loop called dfs on to reach x: the end of x's parent links
RootOf(x) == IF x \in DOMAIN edgeTo THEN RootOf(edgeTo[x]) ELSE x

\* C12: once a cycle is recorded it is never overwritten or cleared, and from then on
\* no neighbour is explored: no parent link is recorded and no vertex is entered
\* through an edge; a vertex is entered only by the sorter's outer loop.
C12_FirstCycleIsFinal ==
    [][ cycle # {} =>
            /\ cycle' = cycle
            /\ edgeTo' = edgeTo
            /\ (marked' # marked \/ Len(stack') > Len(stack)) =>
                   /\ stack = << >>
                   /\ Len(stack') = 1
                   /\ vi' = vi + 1 ]_vars

\* a cycle is recorded, and the outer loop has since entered another vertex
C12_Witness ==
    /\ pc = "sort"
    /\ cycle # {}
    /\ stack # << >>
    /\ stack[1].v # RootOf((CHOOSE c \in cycle : TRUE)[1])
    /\ TopNeighbours # << >>

RECURSIVE SumOver(_, _)
\* the sum of the sequence of numbers q from position k on
SumOver(q, k) == IF k > Len(q) THEN 0 ELSE q[k] + SumOver(q, k + 1)

\* the steps the sorter still has to take: the vertices left to the outer loop, a
\* loop step per neighbour and a return for every unmarked vertex, and the loop steps
\* and the return left to every activation of dfs
StepsLeft ==
    LET vs == getVertices(graph)
    IN  (Len(vs) + 1 - vi)
        + SumOver([ k \in 1..Len(vs) |->
                      IF vs[k] \in marked THEN 0
                      ELSE Len(getAdjacencyList(graph, vs[k])) + 1 ], 1)
        + SumOver([ k \in 1..Len(stack) |->
                      Len(getAdjacencyList(graph, stack[k].v)) - stack[k].i + 2 ], 1)

\* C13: for every graph the sorter's construction terminates: every step of the sort
\* is followed by another until the constructor ends, and each lowers a count of the
\* steps left that is never negative; dfs enters a vertex only if it is not marked,
\* so at most once; the parent-link walk of a cycle always reaches w; on completion
\* every vertex is marked and none is on the path.
C13_SortTerminates ==
    /\ [](pc # "hang")
    /\ [](pc = "sort" => StepsLeft >= 0 /\ ENABLED ConstructorStep)
    /\ [][ (pc = "sort" /\ pc' = "sort") => StepsLeft' < StepsLeft ]_vars
    /\ [][ Len(stack') > Len(stack) =>
               /\ stack'[Len(stack')].v \notin marked
               /\ stack'[Len(stack')].v \notin Range(ordering)
               /\ marked' = marked \cup { stack'[Len(stack')].v } ]_vars
    /\ [](pc = "ready" =>
               /\ marked = Range(getVertices(graph))
               /\ Len(ordering) = Len(getVertices(graph))
               /\ Range(ordering) = marked
               /\ onStack = {}
               /\ stack = << >>)

\* the sort is complete on a graph with a cycle whose parent-link walk took two steps
C13_Witness ==
    /\ pc = "ready"
    /\ cycle # {}
    /\ Len(CHOOSE c \in cycle : TRUE) = 4
    /\ marked = Range(getVertices(graph))
    /\ onStack = {}

====
